---- MODULE Spec2Model ----
(***************************************************************************)
(* NetSuite API simulation (src/main.py): the authentication and rate      *)
(* limiting middleware, the login endpoint and the inventory endpoint with *)
(* its tier-dependent delay, bounded connection pool and response shaping. *)
(*                                                                         *)
(* Time is counted in whole hours (now).  Every request is a record in the *)
(* bag reqs, from the moment the middleware has seen it until its answer   *)
(* has been handed back to the client.  The middleware runs without an     *)
(* await from the header check to the counter increment (lines 97-131),    *)
(* so that part is one step; the endpoint is cut at its awaits.            *)
(***************************************************************************)
EXTENDS Integers, Sequences, FiniteSets, Bags, TLC

VARIABLES
    started,    \* the startup event has run: pool created, table seeded
    now,        \* wall clock, in hours
    inventory,  \* number of rows of the inventory table (ordered by id)
    cache,      \* the module-global rate-limit cache: cache key -> window
    inUse,      \* connections of the pool currently acquired
    reqs,       \* bag of the requests being handled or answered
    hist        \* per customer: the requests of the current hour bucket

vars == <<started, now, inventory, cache, inUse, reqs, hist>>

----------------------------------------------------------------------------
(* Program constants *)

SECRET_KEY == "netsuite_simulation_secret"

Tiers == {"standard", "premium", "enterprise"}

CUSTOMER_TIERS == [t \in Tiers |->
    CASE t = "standard" -> [rate_limit |-> 30, priority |-> 1]
      [] t = "premium" -> [rate_limit |-> 100, priority |-> 2]
      [] t = "enterprise" -> [rate_limit |-> 300, priority |-> 3]]

Customers == {"CUST001", "CUST002", "CUST003"}

valid_customers == [c \in Customers |->
    CASE c = "CUST001" -> [key |-> "apikey001", tier |-> "standard"]
      [] c = "CUST002" -> [key |-> "apikey002", tier |-> "premium"]
      [] c = "CUST003" -> [key |-> "apikey003", tier |-> "enterprise"]]

\* asyncpg.create_pool(min_size=5, max_size=20)
PoolMin == 5
PoolMax == 20
\* rows inserted by startup into an empty table
SeedCount == 1000
\* token lifetime, hours
TokenTTL == 24
\* "peak hours": 9 <= hour <= 17
PeakFrom == 9
PeakTo == 17
\* asyncio.sleep durations, in tenths of a second
SlowDelay == 20
ConnDelay == 1

\* None of Python, for the integer fields
None == -1

----------------------------------------------------------------------------
(* Bounds of the model *)

\* authenticated requests per customer and hour bucket, outside a burst
MaxAttempts == 2
\* in a burst: requests the other customers may interleave per bucket
MaxInterleave == 2
\* in a burst: requests a customer may send beyond its tier's limit
MaxOver == 2
\* requests of one customer in the bag at once, under load
MaxOverlap == 2
\* requests beyond the pool's size
MaxWaiting == 1
\* hours the clock advances
MaxElapsed == 1
\* rows found in the table at startup
MaxRows == 3
\* request parameters
MaxPage == 3
MaxLimit == 3

----------------------------------------------------------------------------
(* Tokens (create_token, decode_token) *)

\* a JWT: the payload and the key its HS256 signature was made with
NoToken == [sub |-> "", tier |-> "", exp |-> None, key |-> ""]

create_token(customer_id, tier, t) ==
    [sub |-> customer_id, tier |-> tier, exp |-> t + TokenTTL, key |-> SECRET_KEY]

\* a variant of the verification: a token is refused from its last hour on
decode_tokenEarly(token, t) ==
    IF token.key = SECRET_KEY /\ token.exp > t + 1
    THEN [ok |-> TRUE, sub |-> token.sub, tier |-> token.tier]
    ELSE [ok |-> FALSE, sub |-> "", tier |-> ""]

\* a variant of the verification: the expiration is not looked at
decode_tokenForever(token, t) ==
    IF token.key = SECRET_KEY
    THEN [ok |-> TRUE, sub |-> token.sub, tier |-> token.tier]
    ELSE [ok |-> FALSE, sub |-> "", tier |-> ""]

\* jwt.decode verifies the signature and the expiration; PyJWTError -> 401
decode_token(token, t) ==
    IF token.key = SECRET_KEY /\ token.exp > t
    THEN [ok |-> TRUE, sub |-> token.sub, tier |-> token.tier]
    ELSE [ok |-> FALSE, sub |-> "", tier |-> ""]

\* the Authorization header: absent, or a scheme and a credential
NoHeader == [scheme |-> "", cred |-> NoToken]

Bearer(token) == [scheme |-> "Bearer", cred |-> token]

----------------------------------------------------------------------------
(* The rate limiter of the middleware *)

\* a variant of the key: one window for all customers
cache_keyShared(customer_id) == "rate_limit:"

\* f"rate_limit:{customer_id}"
cache_key(customer_id) == "rate_limit:" \o customer_id

\* datetime.now().strftime("%Y-%m-%d-%H"): the day and the hour of the day
HourLabel(t) == <<t \div 24, t % 24>>

\* datetime.now().hour
HourOfDay(t) == t % 24

NewWindow(t) == [count |-> 0, hour |-> HourLabel(t)]

\* a variant of the limit test: the comparison is off by one
OverLimitStrict(count, rate_limit) == count > rate_limit

\* the limit test of line 123
OverLimit(count, rate_limit) == count >= rate_limit

\* a variant of the increment: the count read before a request was let
\* through is written back while that request is still being handled, so
\* the increment of a request that overlaps it is lost
IncrementStale(window) ==
    IF \E r \in BagToSet(reqs) : r.stage \in {"delay", "slow", "acquire", "conn", "fetched"}
    THEN window
    ELSE [window EXCEPT !.count = @ + 1]

\* cache[cache_key]["count"] += 1
Increment(window) == [window EXCEPT !.count = @ + 1]

\* a variant of the refresh: on a change of hour the label is replaced and
\* the count is kept
RefreshCarry(cch, key, t) ==
    LET c1 == IF key \notin DOMAIN cch THEN (key :> NewWindow(t)) @@ cch ELSE cch
    IN  [c1 EXCEPT ![key].hour = HourLabel(t)]

\* lines 115-120: create the window if missing, reset it if the hour changed
Refresh(cch, key, t) ==
    LET c1 == IF key \notin DOMAIN cch THEN (key :> NewWindow(t)) @@ cch ELSE cch
    IN  IF c1[key].hour # HourLabel(t) THEN [c1 EXCEPT ![key] = NewWindow(t)] ELSE c1

\* a variant of the rate check: the counter is incremented before the test
RateCheckCharge(cch, customer_id, tier, t) ==
    LET rate_limit == CUSTOMER_TIERS[tier].rate_limit
        key == cache_key(customer_id)
        c2 == Refresh(cch, key, t)
        c3 == [c2 EXCEPT ![key] = Increment(@)]
    IN  IF OverLimit(c2[key].count, rate_limit)
        THEN [allowed |-> FALSE, cache |-> c3]
        ELSE [allowed |-> TRUE, cache |-> c3]

\* lines 108-127: the cache after the request, and whether it may proceed
RateCheck(cch, customer_id, tier, t) ==
    LET rate_limit == CUSTOMER_TIERS[tier].rate_limit
        key == cache_key(customer_id)
        c2 == Refresh(cch, key, t)
    IN  IF OverLimit(c2[key].count, rate_limit)
        THEN [allowed |-> FALSE, cache |-> c2]
        ELSE [allowed |-> TRUE, cache |-> [c2 EXCEPT ![key] = Increment(@)]]

\* lines 97-105 and 142-143: the verdict on the Authorization header
Authenticate(header, t) ==
    IF header = NoHeader \/ header.scheme # "Bearer"
    THEN [ok |-> FALSE, detail |-> "Authentication required", sub |-> "", tier |-> ""]
    ELSE LET token_data == decode_token(header.cred, t)
         IN  IF token_data.ok /\ token_data.tier \in DOMAIN CUSTOMER_TIERS
             THEN [ok |-> TRUE, detail |-> "", sub |-> token_data.sub,
                   tier |-> token_data.tier]
             ELSE [ok |-> FALSE, detail |-> "Authentication error", sub |-> "",
                   tier |-> ""]

----------------------------------------------------------------------------
(* The inventory table and the queries of get_inventory *)

\* item_id is None: a list request
NoItem == None

Min(a, b) == IF a < b THEN a ELSE b

Max(a, b) == IF a > b THEN a ELSE b

\* the k-th row in id order holds item k-1 ("ITEM-0", "ITEM-1", ...)
Row(k) == k - 1

\* a variant of the item query: a row is made up for an id no row holds
SelectItemAlways(n, item_id) == <<item_id>>

\* SELECT * FROM inventory WHERE item_id = $1
SelectItem(n, item_id) ==
    IF \E k \in 1..n : Row(k) = item_id THEN <<item_id>> ELSE <<>>

\* a variant of the offset: the page taken as counted from 0
OffsetFromZero(page, limit) == page * limit

\* offset = (page - 1) * limit
Offset(page, limit) == (page - 1) * limit

\* SELECT * FROM inventory ORDER BY id LIMIT $1 OFFSET $2
SelectPage(n, limit, offset) ==
    [i \in 1..Max(0, Min(limit, n - offset)) |-> Row(offset + i)]

\* PostgreSQL rejects a negative LIMIT or OFFSET
QueryRejected(item_id, page, limit) ==
    item_id = NoItem /\ (limit < 0 \/ Offset(page, limit) < 0)

\* SELECT COUNT(*) FROM inventory, for the enterprise tier's list only
SelectCount(n, tier, item_id) ==
    IF item_id = NoItem /\ tier = "enterprise" THEN n ELSE None

\* (count + limit - 1) // limit if count else None
PageCount(count, limit) ==
    IF count # 0 /\ count # None THEN (count + limit - 1) \div limit ELSE None

\* line 238 divides by limit
ShapeRaises(tier, item_id, limit, count) ==
    tier = "enterprise" /\ item_id = NoItem /\ count # 0 /\ count # None /\ limit = 0

----------------------------------------------------------------------------
(* Responses *)

\* what the client is answered: the status, how it came about (a response, an
\* HTTPException raised in the endpoint, or one returned by the middleware),
\* the keys of the JSON body with their values, and the X-Processing-Time
\* header
NoResp == [status |-> 0, via |-> "", keys |-> {}, items |-> <<>>, total |-> None,
           page |-> None, limit |-> None, pages |-> None, token |-> NoToken,
           timed |-> FALSE, detail |-> ""]

ErrorResp(status, via, detail) ==
    [NoResp EXCEPT !.status = status, !.via = via, !.keys = {"detail"},
                   !.detail = detail]

\* a variant of the shaping: the test of the tier is left out
ShapeAnyTier(tier, item_id, page, limit, result, count) ==
    IF item_id = NoItem
    THEN [NoResp EXCEPT !.status = 200, !.via = "response",
                        !.keys = {"items", "total", "page", "limit", "pages"},
                        !.items = result, !.total = count, !.page = page,
                        !.limit = limit, !.pages = PageCount(count, limit)]
    ELSE [NoResp EXCEPT !.status = 200, !.via = "response", !.keys = {"items"},
                        !.items = result]

\* a variant of the shaping: page and limit are taken for one another
ShapeSwapped(tier, item_id, page, limit, result, count) ==
    IF tier = "enterprise" /\ item_id = NoItem
    THEN [NoResp EXCEPT !.status = 200, !.via = "response",
                        !.keys = {"items", "total", "page", "limit", "pages"},
                        !.items = result, !.total = count, !.page = limit,
                        !.limit = page, !.pages = PageCount(count, limit)]
    ELSE [NoResp EXCEPT !.status = 200, !.via = "response", !.keys = {"items"},
                        !.items = result]

\* lines 229-241
Shape(tier, item_id, page, limit, result, count) ==
    IF tier = "enterprise" /\ item_id = NoItem
    THEN [NoResp EXCEPT !.status = 200, !.via = "response",
                        !.keys = {"items", "total", "page", "limit", "pages"},
                        !.items = result, !.total = count, !.page = page,
                        !.limit = limit, !.pages = PageCount(count, limit)]
    ELSE [NoResp EXCEPT !.status = 200, !.via = "response", !.keys = {"items"},
                        !.items = result]

\* lines 134-140: the middleware adds the header to what call_next returned
Timed(resp) == [resp EXCEPT !.timed = TRUE]

----------------------------------------------------------------------------
(* Requests *)

\* asyncio.sleep of lines 186-194, in tenths of a second
TierDelay(tier) ==
    CASE tier = "standard" -> 5
      [] tier = "premium" -> 2
      [] OTHER -> 1

\* a request at the start of its handler; for the properties the record
\* keeps what the request has been through: the count of an earlier hour its
\* rate check discarded, the time it has slept, whether it got a connection,
\* the size of the table its queries saw
NewReq(path, customer_id, tier, item_id, page, limit) ==
    [path |-> path, cust |-> customer_id, tier |-> tier, item |-> item_id,
     page |-> page, limit |-> limit, stage |-> "delay", discarded |-> None,
     slept |-> 0,
     acquired |-> FALSE, seen |-> None, result |-> <<>>, count |-> None,
     resp |-> NoResp]

\* a request that has its answer
Answered(r, stage, resp) == [r EXCEPT !.stage = stage, !.resp = resp]

Put(bag, r) == bag (+) SetToBag({r})

Take(bag, r) == bag (-) SetToBag({r})

InFlight == BagCardinality(reqs)

----------------------------------------------------------------------------
(* History of the current hour bucket, kept for the properties only: per   *)
(* customer the authenticated requests seen in the bucket, how many were   *)
(* let through and how many were answered 429.                             *)

NoHist == [attempts |-> 0, allowed |-> 0, denied |-> 0]

\* the count of an earlier hour that a request now would discard

Discarded(cch, key, t) ==
    IF key \in DOMAIN cch /\ cch[key].hour # HourLabel(t) THEN cch[key].count ELSE None

Noted(h, customer_id, allowed) ==
    [h EXCEPT ![customer_id] =
        [attempts |-> @.attempts + 1,
         allowed |-> @.allowed + (IF allowed THEN 1 ELSE 0),
         denied |-> @.denied + (IF allowed THEN 0 ELSE 1)]]

\* the count the cache holds for a customer, of whatever hour
Stored(customer_id) ==
    IF cache_key(customer_id) \in DOMAIN cache
    THEN cache[cache_key(customer_id)].count
    ELSE 0

\* the bound on the authenticated requests of a customer in a bucket: cap;
\* and a customer's count goes beyond MaxInterleave only while the counts of
\* the others are at MaxInterleave or below (a burst of one customer, the
\* others interleaving)
WithinBudget(customer_id, cap) ==
    /\ hist[customer_id].attempts < cap
    /\ \/ Stored(customer_id) < MaxInterleave
       \/ \A d \in Customers \ {customer_id} : Stored(d) <= MaxInterleave

\* a burst takes a customer MaxOver requests beyond its tier's limit
BurstCap(customer_id) ==
    CUSTOMER_TIERS[valid_customers[customer_id].tier].rate_limit + MaxOver

----------------------------------------------------------------------------
(* Actions *)

\* what the program starts from: nothing started, an empty cache, a table
\* with the rows it happens to hold
InitWith(startHours, preRows) ==
    /\ started = FALSE
    /\ now \in startHours
    /\ inventory \in preRows
    /\ cache = <<>>
    /\ inUse = 0
    /\ reqs = EmptyBag
    /\ hist = [c \in Customers |-> NoHist]

\* the startup event: the pool is created and an empty table is seeded
Startup ==
    /\ ~started
    /\ started' = TRUE
    /\ inventory' = IF inventory = 0 THEN SeedCount ELSE inventory
    /\ UNCHANGED <<now, cache, inUse, reqs, hist>>

\* the clock reaches the next hour: a new bucket, with no request in it yet
Tick(maxNow) ==
    /\ now < maxNow
    /\ now' = now + 1
    /\ hist' = [c \in Customers |-> NoHist]
    /\ UNCHANGED <<started, inventory, cache, inUse, reqs>>

\* health_check, behind the middleware
Health(r) ==
    Answered(r, "responded",
             Timed([NoResp EXCEPT !.status = 200, !.via = "response",
                                  !.keys = {"status"}]))

\* call_next: the route's handler starts
Dispatch(r) == IF r.path = "/health" THEN Health(r) ELSE r

\* auth_and_rate_limit for a path other than /api/login, up to call_next
Request(maxInFlight, cap, path, header, item_id, page, limit) ==
    /\ started
    /\ InFlight < maxInFlight
    /\ LET a == Authenticate(header, now)
           rc == RateCheck(cache, a.sub, a.tier, now)
           r == [NewReq(path, a.sub, a.tier, item_id, page, limit)
                    EXCEPT !.discarded = IF a.ok
                                         THEN Discarded(cache, cache_key(a.sub), now)
                                         ELSE None]
       IN  IF ~a.ok
           THEN /\ reqs' = Put(reqs, Answered(r, "error",
                                              ErrorResp(401, "returned", a.detail)))
                /\ UNCHANGED <<cache, hist>>
           ELSE /\ WithinBudget(a.sub, cap)
                /\ cache' = rc.cache
                /\ hist' = Noted(hist, a.sub, rc.allowed)
                /\ reqs' = Put(reqs,
                       IF rc.allowed
                       THEN Dispatch(r)
                       ELSE Answered(r, "error",
                                     ErrorResp(429, "returned", "Rate limit exceeded")))
    /\ UNCHANGED <<started, now, inventory, inUse>>

\* a variant of login: the key of any configured customer is taken
loginAnyKey(customer_id, api_key, t) ==
    IF customer_id \notin DOMAIN valid_customers
    THEN ErrorResp(401, "raised", "Invalid customer ID")
    ELSE IF \A c \in DOMAIN valid_customers : valid_customers[c].key # api_key
    THEN ErrorResp(401, "raised", "Invalid API key")
    ELSE [NoResp EXCEPT !.status = 200, !.via = "response",
                        !.keys = {"access_token", "token_type"},
                        !.token = create_token(customer_id,
                                      valid_customers[customer_id].tier, t)]

\* lines 160-172: what login answers
login(customer_id, api_key, t) ==
    IF customer_id \notin DOMAIN valid_customers
    THEN ErrorResp(401, "raised", "Invalid customer ID")
    ELSE IF valid_customers[customer_id].key # api_key
    THEN ErrorResp(401, "raised", "Invalid API key")
    ELSE [NoResp EXCEPT !.status = 200, !.via = "response",
                        !.keys = {"access_token", "token_type"},
                        !.token = create_token(customer_id,
                                      valid_customers[customer_id].tier, t)]

\* a login request: the middleware passes /api/login through
Login(maxInFlight, customer_id, api_key) ==
    /\ started
    /\ InFlight < maxInFlight
    /\ LET r == NewReq("/api/login", "", "", NoItem, None, None)
           resp == login(customer_id, api_key, now)
       IN  reqs' = Put(reqs, Answered(r, IF resp.status = 200 THEN "responded" ELSE "error",
                                      resp))
    /\ UNCHANGED <<started, now, inventory, cache, inUse, hist>>

\* random.random() < 0.2, asked only between 9 and 17 o'clock
SlowChoices(t) ==
    IF PeakFrom <= HourOfDay(t) /\ HourOfDay(t) <= PeakTo THEN {TRUE, FALSE} ELSE {FALSE}

\* the ways pool.acquire() can go with n connections in use: a free
\* connection is handed out; with none free the caller waits for a release;
\* a connection the pool has to open beyond its minimum can be refused by the
\* server (TooManyConnectionsError)
AcquireOutcomes(n, refusals) ==
    (IF n < PoolMax THEN {"acquired"} ELSE {"wait"})
        \cup (IF refusals /\ PoolMin <= n /\ n < PoolMax THEN {"refused"} ELSE {})

\* a variant of the delay: the sleep is started and not awaited
AfterDelayNoWait(r) == r

\* the request after the sleep of lines 186-194
AfterDelay(r) == [r EXCEPT !.slept = @ + TierDelay(r.tier)]

\* the request after the sleep of line 201
AfterSlow(r) == [r EXCEPT !.slept = @ + SlowDelay]

\* lines 203-205 and 243-248: the request at pool.acquire()
AtPool(r, outcome) ==
    CASE outcome = "acquired" -> [r EXCEPT !.stage = "conn", !.acquired = TRUE]
      [] outcome = "wait" -> [r EXCEPT !.stage = "acquire"]
      [] OTHER -> Answered(r, "error",
                      Timed(ErrorResp(503, "raised", "Connection pool exhausted")))

Held(outcome) == IF outcome = "acquired" THEN 1 ELSE 0

\* the tier's sleep is over: the hour is read, and the request either
\* sleeps on (a slowdown) or goes for a connection
DelayDone(r, slow, outcome) ==
    /\ r.stage = "delay"
    /\ IF slow
       THEN /\ reqs' = Put(Take(reqs, r), [AfterDelay(r) EXCEPT !.stage = "slow"])
            /\ inUse' = inUse
       ELSE /\ reqs' = Put(Take(reqs, r), AtPool(AfterDelay(r), outcome))
            /\ inUse' = inUse + Held(outcome)
    /\ UNCHANGED <<started, now, inventory, cache, hist>>

\* the slowdown is over
SlowDone(r, outcome) ==
    /\ r.stage = "slow"
    /\ reqs' = Put(Take(reqs, r), AtPool(AfterSlow(r), outcome))
    /\ inUse' = inUse + Held(outcome)
    /\ UNCHANGED <<started, now, inventory, cache, hist>>

\* a variant of the wait: a release wakes no waiting request
PoolWakeLost(r) ==
    /\ r.stage = "acquire"
    /\ inUse > PoolMax
    /\ reqs' = Put(Take(reqs, r), AtPool(r, "acquired"))
    /\ inUse' = inUse + 1
    /\ UNCHANGED <<started, now, inventory, cache, hist>>

\* a waiting request gets a connection that was released
PoolWake(r) ==
    /\ r.stage = "acquire"
    /\ inUse < PoolMax
    /\ reqs' = Put(Take(reqs, r), AtPool(r, "acquired"))
    /\ inUse' = inUse + 1
    /\ UNCHANGED <<started, now, inventory, cache, hist>>

\* lines 207-223: the queries, on the connection; a failure of the store or
\* a query it rejects leaves the block through line 249 (500)
Query(r, fails) ==
    /\ r.stage = "conn"
    /\ IF fails \/ QueryRejected(r.item, r.page, r.limit)
       THEN /\ reqs' = Put(Take(reqs, r),
                  Answered([r EXCEPT !.slept = @ + ConnDelay], "error",
                      Timed(ErrorResp(500, "raised", "Internal server error"))))
            /\ inUse' = inUse - 1
       ELSE /\ reqs' = Put(Take(reqs, r),
                  [r EXCEPT !.stage = "fetched", !.slept = @ + ConnDelay,
                            !.seen = inventory,
                            !.result = IF r.item # NoItem
                                       THEN SelectItem(inventory, r.item)
                                       ELSE SelectPage(inventory, r.limit,
                                                       Offset(r.page, r.limit)),
                            !.count = SelectCount(inventory, r.tier, r.item)])
            /\ inUse' = inUse
    /\ UNCHANGED <<started, now, inventory, cache, hist>>

\* lines 226-241 and 136-140: the response is shaped, the connection goes
\* back to the pool, the middleware adds its header
Respond(r) ==
    /\ r.stage = "fetched"
    /\ reqs' = Put(Take(reqs, r),
           IF ShapeRaises(r.tier, r.item, r.limit, r.count)
           THEN Answered([r EXCEPT !.slept = @ + ConnDelay], "error",
                    Timed(ErrorResp(500, "raised", "Internal server error")))
           ELSE Answered([r EXCEPT !.slept = @ + ConnDelay], "responded",
                    Timed(Shape(r.tier, r.item, r.page, r.limit, r.result, r.count))))
    /\ inUse' = inUse - 1
    /\ UNCHANGED <<started, now, inventory, cache, hist>>

\* the answer has gone to the client
Close(r) ==
    /\ r.stage \in {"responded", "error"}
    /\ reqs' = Take(reqs, r)
    /\ UNCHANGED <<started, now, inventory, cache, inUse, hist>>

\* the stages in which a request is suspended at an await of get_inventory
Suspended == {"delay", "slow", "acquire", "conn", "fetched"}

\* a variant of the cancellation: the request's increment is taken back
CancelRefund(r) ==
    /\ r.stage \in Suspended
    /\ reqs' = Put(Take(reqs, r), [r EXCEPT !.stage = "cancelled"])
    /\ inUse' = IF r.stage \in {"conn", "fetched"} THEN inUse - 1 ELSE inUse
    /\ cache' = [cache EXCEPT ![cache_key(r.cust)].count = Max(0, @ - 1)]
    /\ UNCHANGED <<started, now, inventory, hist>>

\* a variant of the cancellation: the connection of the request stays taken
CancelKeepsSlot(r) ==
    /\ r.stage \in Suspended
    /\ reqs' = Put(Take(reqs, r), [r EXCEPT !.stage = "cancelled"])
    /\ UNCHANGED <<started, now, inventory, cache, inUse, hist>>

\* the client goes away while its request is suspended: the await raises
\* CancelledError, which is no Exception, so neither except clause of
\* get_inventory nor that of the middleware catches it; leaving the async
\* with block gives a held connection back; no answer is made
Cancel(r) ==
    /\ r.stage \in Suspended
    /\ reqs' = Put(Take(reqs, r), [r EXCEPT !.stage = "cancelled"])
    /\ inUse' = IF r.stage \in {"conn", "fetched"} THEN inUse - 1 ELSE inUse
    /\ UNCHANGED <<started, now, inventory, cache, hist>>

\* the task of a cancelled request is gone
Forget(r) ==
    /\ r.stage = "cancelled"
    /\ reqs' = Take(reqs, r)
    /\ UNCHANGED <<started, now, inventory, cache, inUse, hist>>

\* another client of the database empties the table
Truncate ==
    /\ started
    /\ inventory # 0
    /\ inventory' = 0
    /\ UNCHANGED <<started, now, cache, inUse, reqs, hist>>

----------------------------------------------------------------------------
(* Inputs *)

TokenOf(customer_id, t) == create_token(customer_id, valid_customers[customer_id].tier, t)

\* headers with a token login has issued and that is still valid
GoodHeaders(cs, t) == {Bearer(TokenOf(c, t)) : c \in cs}

\* no header, another scheme, a token signed with another key (claiming the
\* top tier), a token issued TokenTTL hours ago
BadHeaders(t) ==
    {NoHeader,
     [scheme |-> "Basic", cred |-> TokenOf("CUST001", t)],
     Bearer([sub |-> "CUST001", tier |-> "enterprise", exp |-> t + TokenTTL,
             key |-> "another_secret"]),
     Bearer(TokenOf("CUST002", t - TokenTTL))}

\* an item number no row holds
MissingItem == SeedCount

\* the query parameters of a request: an item id with the defaults of page
\* and limit, or a page and a limit
ItemParams(items) == {[item |-> i, page |-> 1, limit |-> 100] : i \in items}

ListParams(pages, limits) ==
    {[item |-> NoItem, page |-> p, limit |-> l] : p \in pages, l \in limits}

Running == BagToSet(reqs)

----------------------------------------------------------------------------
(* Specifications *)

\* the hour the service is started at
StartHours == {8}

LastHour == 8 + MaxElapsed

\* the service in general: every customer, every kind of request, a few
\* requests per customer and hour, one request at a time
Init == InitWith(StartHours, {MaxRows})

Next ==
    \/ Startup
    \/ Tick(LastHour)
    \/ \E path \in {"/health", "/api/inventory"},
          header \in GoodHeaders(Customers, now) \cup BadHeaders(now),
          q \in ItemParams({0, MissingItem}) \cup ListParams(1..2, {2}) :
          Request(1, MaxAttempts, path, header, q.item, q.page, q.limit)
    \/ \E c \in Customers \cup {"CUST004"}, k \in {"apikey001", "apikey002"} :
          Login(1, c, k)
    \/ \E r \in Running, slow \in SlowChoices(now), o \in AcquireOutcomes(inUse, TRUE) :
          DelayDone(r, slow, o)
    \/ \E r \in Running, o \in AcquireOutcomes(inUse, TRUE) : SlowDone(r, o)
    \/ \E r \in Running, fails \in BOOLEAN : Query(r, fails)
    \/ \E r \in Running : Respond(r)
    \/ \E r \in Running : Close(r)

Spec == Init /\ [][Next]_vars

\* the rate limiter under load: one customer at a time sends requests up to
\* and beyond its tier's limit, the others interleave theirs; the requests are
\* GET /health with a token, which the handler answers at once, one request
\* at a time
BurstHeaderCap(header) ==
    IF header.cred.sub \in Customers THEN BurstCap(header.cred.sub) ELSE 0

InitRate == InitWith(StartHours, {MaxRows})

NextRate ==
    \/ Startup
    \/ Tick(LastHour)
    \/ \E header \in GoodHeaders(Customers, now) \cup BadHeaders(now) :
          Request(1, BurstHeaderCap(header), "/health", header, NoItem, 1, 100)
    \/ \E r \in Running : Close(r)

SpecRate == InitRate /\ [][NextRate]_vars

\* one customer under load: the standard customer sends inventory requests
\* that overlap, up to and beyond its limit, in a peak hour, on a table the
\* startup has seeded
InitLoad == InitWith({PeakFrom}, {0})

NextLoad ==
    \/ Startup
    \/ \E header \in GoodHeaders({"CUST001"}, now) \cup BadHeaders(now),
          q \in ItemParams({0}) \cup ListParams({1}, {2}) :
          Request(MaxOverlap, BurstHeaderCap(header), "/api/inventory", header,
                  q.item, q.page, q.limit)
    \/ \E r \in Running, slow \in SlowChoices(now), o \in AcquireOutcomes(inUse, FALSE) :
          DelayDone(r, slow, o)
    \/ \E r \in Running, o \in AcquireOutcomes(inUse, FALSE) : SlowDone(r, o)
    \/ \E r \in Running, fails \in BOOLEAN : Query(r, fails)
    \/ \E r \in Running : Respond(r)
    \/ \E r \in Running : Close(r)

SpecLoad == InitLoad /\ [][NextLoad]_vars

\* the pool under load: more requests at the fetch stage than the pool has
\* connections
InitPool == InitWith(StartHours, {MaxRows})

NextPool ==
    \/ Startup
    \/ \E header \in GoodHeaders({"CUST001"}, now) :
          Request(PoolMax + MaxWaiting, PoolMax + MaxWaiting, "/api/inventory",
                  header, 0, 1, 100)
    \/ \E r \in Running, o \in AcquireOutcomes(inUse, TRUE) : DelayDone(r, FALSE, o)
    \/ \E r \in Running : PoolWake(r)
    \/ \E r \in Running : Query(r, FALSE)
    \/ \E r \in Running : Respond(r)
    \/ \E r \in Running : Close(r)

SpecPool == InitPool /\ [][NextPool]_vars

\* pagination: list requests for every page and limit, on a table of a few
\* rows, one request at a time
InitPage == InitWith(StartHours, 1..MaxRows)

NextPage ==
    \/ Startup
    \/ \E header \in GoodHeaders({"CUST001", "CUST003"}, now),
          q \in ListParams(0..MaxPage, 0..MaxLimit) :
          Request(1, MaxAttempts, "/api/inventory", header,
                  q.item, q.page, q.limit)
    \/ \E r \in Running, o \in AcquireOutcomes(inUse, FALSE) : DelayDone(r, FALSE, o)
    \/ \E r \in Running : Query(r, FALSE)
    \/ \E r \in Running : Respond(r)
    \/ \E r \in Running : Close(r)

SpecPage == InitPage /\ [][NextPage]_vars

\* the same, with the table emptied under the running service
NextStore == NextPage \/ Truncate

SpecStore == InitPage /\ [][NextStore]_vars

\* tokens over their lifetime: a client logs in during the first hours and
\* presents the token it was given, with GET /health, for more than a day
LoggedIn == {l \in Running : l.path = "/api/login" /\ l.stage = "responded"}

TokenLastHour == LastHour + TokenTTL

InitToken == InitWith(StartHours, {MaxRows})

NextToken ==
    \/ Startup
    \/ Tick(TokenLastHour)
    \/ \E c \in Customers :
          /\ now <= LastHour
          /\ LoggedIn = {}
          /\ Login(2, c, valid_customers[c].key)
    \/ \E l \in LoggedIn :
          Request(2, 1, "/health", Bearer(l.resp.token), NoItem, 1, 100)
    \/ \E r \in Running : Close(r)

SpecToken == InitToken /\ [][NextToken]_vars

\* tokens that must not pass, in the names of the standard and the premium
\* customer: one that expired this hour, one that expired an hour ago, one
\* signed with another key, one whose payload was altered after signing (the
\* signature fits no key), and a string that is no token
ForgedHeaders(t) ==
    {Bearer(TokenOf("CUST001", t - TokenTTL)),
     Bearer(TokenOf("CUST002", t - TokenTTL - 1)),
     Bearer([TokenOf("CUST001", t) EXCEPT !.key = "another_secret"]),
     Bearer([TokenOf("CUST002", t) EXCEPT !.tier = "enterprise", !.key = ""]),
     Bearer(NoToken)}

\* authentication: the enterprise customer sends requests with its token,
\* and requests arrive with tokens that must not pass
InitAuth == InitWith(StartHours, {MaxRows})

NextAuth ==
    \/ Startup
    \/ Tick(LastHour)
    \/ \E path \in {"/health", "/api/inventory"},
          header \in GoodHeaders({"CUST003"}, now) \cup ForgedHeaders(now),
          q \in ItemParams({0}) \cup ListParams({1}, {2}) :
          Request(2, MaxAttempts, path, header, q.item, q.page, q.limit)
    \/ \E r \in Running, o \in AcquireOutcomes(inUse, FALSE) : DelayDone(r, FALSE, o)
    \/ \E r \in Running : Query(r, FALSE)
    \/ \E r \in Running : Respond(r)
    \/ \E r \in Running : Close(r)

SpecAuth == InitAuth /\ [][NextAuth]_vars

\* what becomes of a request that was let through: the standard customer
\* sends overlapping inventory requests, enough of them for the pool to open
\* connections beyond its minimum; they are served, refused a connection
\* (503), fail at the table (500) or are cancelled, all within one hour
MaxCharged == PoolMin + MaxWaiting

InitCharge == InitWith(StartHours, {MaxRows})

NextCharge ==
    \/ Startup
    \/ \E header \in GoodHeaders({"CUST001"}, now) :
          Request(MaxCharged, MaxCharged, "/api/inventory", header, 0, 1, 100)
    \/ \E r \in Running, o \in AcquireOutcomes(inUse, TRUE) : DelayDone(r, FALSE, o)
    \/ \E r \in Running, fails \in BOOLEAN : Query(r, fails)
    \/ \E r \in Running : Respond(r)
    \/ \E r \in Running : Close(r)
    \/ \E r \in Running : Cancel(r)
    \/ \E r \in Running : Forget(r)

SpecCharge == InitCharge /\ [][NextCharge]_vars

\* the pool's connections over the lives of the requests: the standard
\* customer sends more inventory requests than the pool has connections, one
\* after the other has passed its delay; a request is served, fails at the
\* table or is cancelled, and what is left of it is cleared away before the
\* next request ends
Quiet == \A r \in Running : r.stage \in Suspended

InitSlots == InitWith(StartHours, {MaxRows})

NextSlots ==
    \/ Startup
    \/ \E header \in GoodHeaders({"CUST001"}, now) :
          /\ \A r \in Running : r.stage # "delay"
          /\ Request(PoolMax + MaxWaiting, PoolMax + MaxWaiting, "/api/inventory",
                     header, 0, 1, 100)
    \/ \E r \in Running, o \in AcquireOutcomes(inUse, FALSE) : DelayDone(r, FALSE, o)
    \/ \E r \in Running : PoolWake(r)
    \/ \E r \in Running, fails \in BOOLEAN : Quiet /\ Query(r, fails)
    \/ \E r \in Running : Quiet /\ Respond(r)
    \/ \E r \in Running : Quiet /\ Cancel(r)
    \/ \E r \in Running : Close(r)
    \/ \E r \in Running : Forget(r)

SpecSlots == InitSlots /\ [][NextSlots]_vars

\* the requests under fair scheduling: as in SpecSlots without cancellation,
\* and with the server refusing connections; the event loop resumes every
\* coroutine that can go on, and every answer is handed back
InitLive == InitWith(StartHours, {MaxRows})

Handle ==
    \/ \E r \in Running, o \in AcquireOutcomes(inUse, TRUE) : DelayDone(r, FALSE, o)
    \/ \E r \in Running : PoolWake(r)
    \/ \E r \in Running, fails \in BOOLEAN : Quiet /\ Query(r, fails)
    \/ \E r \in Running : Quiet /\ Respond(r)
    \/ \E r \in Running : Close(r)

NextLive ==
    \/ Startup
    \/ \E header \in GoodHeaders({"CUST001"}, now) :
          /\ \A r \in Running : r.stage # "delay"
          /\ Request(PoolMax + MaxWaiting, PoolMax + MaxWaiting, "/api/inventory",
                     header, 0, 1, 100)
    \/ Handle

SpecLive == InitLive /\ [][NextLive]_vars /\ WF_vars(Handle)

----------------------------------------------------------------------------
(* Properties *)

\* the rate limits the specification states for the tiers
StatedLimit(tier) ==
    CASE tier = "standard" -> 30
      [] tier = "premium" -> 100
      [] tier = "enterprise" -> 300

TierOf(customer_id) == valid_customers[customer_id].tier

\* the middleware has added a request to the bag in this step
Arrived(r) == CopiesIn(r, reqs') > CopiesIn(r, reqs)

\* the middleware has turned a request away in this step: 401 or 429
TurnedAway(r) ==
    /\ Arrived(r)
    /\ r.stage = "error"
    /\ r.resp.via = "returned"
    /\ r.resp.status \in {401, 429}

\* C1: in every hour bucket, of the authenticated requests of a customer the
\* first L are let through and every later one is answered 429, L being the
\* limit of the customer's tier (30, 100, 300), whatever the other customers
\* send in between.
C1_FirstLimitPassRestDenied ==
    /\ [](\A c \in Customers :
            /\ hist[c].allowed = Min(hist[c].attempts, StatedLimit(TierOf(c)))
            /\ hist[c].denied = hist[c].attempts - hist[c].allowed)
    /\ [][\A r \in BagToSet(reqs') :
             Arrived(r) /\ r.cust \in Customers =>
                 /\ hist'[r.cust].attempts = hist[r.cust].attempts + 1
                 /\ (r.resp.status = 429) =
                        (hist[r.cust].attempts >= StatedLimit(TierOf(r.cust)))]_vars

\* C1 witness: the enterprise customer has sent 301 requests in the bucket,
\* the last was answered 429, and another customer has sent one in between
C1_Witness ==
    /\ hist["CUST003"].attempts = 301
    /\ hist["CUST003"].allowed = 300
    /\ hist["CUST001"].attempts >= 1
    /\ \E r \in Running : r.cust = "CUST003" /\ r.resp.status = 429

\* C2: a request that finds a window of another hour is checked against a
\* count of 0: it is let through, and the window then holds the current hour
\* with count 1, whatever the old count was.
C2_HourChangeResets ==
    [][\A r \in BagToSet(reqs') :
          Arrived(r) /\ r.cust \in Customers
              /\ cache_key(r.cust) \in DOMAIN cache
              /\ cache[cache_key(r.cust)].hour # HourLabel(now)
          => /\ r.resp.status # 429
             /\ r.discarded = cache[cache_key(r.cust)].count
             /\ cache'[cache_key(r.cust)] = [count |-> 1, hour |-> HourLabel(now)]]_vars

\* C2 witness: a request of the standard customer has discarded a count of
\* 30, the limit, and the window holds the current hour with count 1
C2_Witness ==
    \E r \in Running :
        /\ r.cust = "CUST001"
        /\ r.discarded = 30
        /\ r.stage = "responded"
        /\ cache[cache_key("CUST001")] = [count |-> 1, hour |-> HourLabel(now)]

\* C3: a request the middleware turns away, for its authentication (401) or
\* for the rate limit (429), leaves the cache as it was.
C3_TurnedAwayKeepsCache ==
    [][(\E r \in BagToSet(reqs') : TurnedAway(r)) => cache' = cache]_vars

\* C3 witness: the premium customer has been answered 429 twice in the
\* bucket and its count is still 100
C3_Witness ==
    /\ hist["CUST002"].denied = 2
    /\ cache[cache_key("CUST002")].count = 100
    /\ \E r \in Running : r.cust = "CUST002" /\ r.resp.status = 429

\* the requests of a customer that are being handled
Handling(c) ==
    {r \in Running : r.cust = c /\ r.stage \in {"delay", "slow", "acquire", "conn", "fetched"}}

\* C4: whatever way the requests of a customer overlap, no increment is
\* lost: the count stored for the current hour is the number of the
\* customer's requests let through in the bucket so far, and that number
\* never exceeds the limit of the tier.
C4_NoLostIncrement ==
    \A c \in Customers :
        /\ hist[c].allowed <= StatedLimit(TierOf(c))
        /\ IF cache_key(c) \in DOMAIN cache
              /\ cache[cache_key(c)].hour = HourLabel(now)
           THEN cache[cache_key(c)].count = hist[c].allowed
           ELSE hist[c].allowed = 0

\* C4 witness: two requests of the standard customer are being handled at
\* once, the second let through while the first was, and the count has
\* reached the limit of 30
C4_Witness ==
    /\ BagCardinality([r \in Handling("CUST001") |-> reqs[r]]) >= 2
    /\ cache[cache_key("CUST001")].count = 30
    /\ hist["CUST001"].allowed = 30

\* the delay the specification states for a tier, in tenths of a second: the
\* lower the tier the longer
StatedDelay(tier) ==
    CASE tier = "standard" -> 5
      [] tier = "premium" -> 2
      [] tier = "enterprise" -> 1

\* C5: the stages of a request run in the order authenticate, rate check,
\* delay, fetch, respond: a request has a connection of the pool only after
\* the whole delay of its tier, and a request that failed authentication or
\* was rate-limited has neither slept, nor had a connection, nor queried the
\* table.
C5_DelayBeforeFetch ==
    \A r \in Running :
        /\ r.stage \in {"conn", "fetched"} => r.acquired
        /\ r.acquired =>
              /\ r.cust \in Customers
              /\ r.resp.status \notin {401, 429}
              /\ r.slept >= StatedDelay(r.tier)
        /\ r.seen # None => r.acquired /\ r.slept > StatedDelay(r.tier)
        /\ r.path = "/api/inventory" /\ r.stage = "responded" =>
              r.seen # None /\ r.slept > StatedDelay(r.tier) + 1
        /\ r.resp.status \in {401, 429} =>
              ~r.acquired /\ r.slept = 0 /\ r.seen = None /\ r.stage = "error"

\* C5 witness: a request of the standard customer holds a connection after
\* the 0.5 s of its tier, while a request answered 429 is in the bag
C5_Witness ==
    /\ \E r \in Running : r.stage = "conn" /\ r.acquired /\ r.slept = 5
    /\ \E r \in Running : r.resp.status = 429 /\ ~r.acquired

\* C6: with every connection of the pool in use, a request that comes to
\* pool.acquire() is answered 503 at once: no request waits for a connection.
C6_PoolFullFailsFast ==
    \A r \in Running : r.stage # "acquire"

\* the inventory requests answered 200
Served == {r \in Running : r.path = "/api/inventory" /\ r.stage = "responded"}

\* C7: a successful inventory response holds total and pages if and only if
\* the request is a list request of the enterprise tier.
C7_TotalOnlyEnterpriseList ==
    \A r \in Served :
        /\ r.resp.status = 200
        /\ ("total" \in r.resp.keys) = (r.item = NoItem /\ r.tier = "enterprise")
        /\ ("pages" \in r.resp.keys) = (r.item = NoItem /\ r.tier = "enterprise")

\* C7 witness: an enterprise list response with total and pages
C7_Witness ==
    \E r \in Served :
        /\ r.tier = "enterprise"
        /\ r.item = NoItem
        /\ {"total", "pages"} \subseteq r.resp.keys
        /\ r.resp.total = MaxRows

\* C8 as stated: every successful list response, of every tier, holds the
\* items, the page and the limit of the request; a single-item response holds
\* no pagination metadata.
C8_ListHasPagination ==
    \A r \in Served :
        IF r.item = NoItem
        THEN /\ {"items", "page", "limit"} \subseteq r.resp.keys
             /\ r.resp.page = r.page
             /\ r.resp.limit = r.limit
        ELSE r.resp.keys \cap {"page", "limit", "total", "pages"} = {}

\* C8 as amended: every successful list response holds the items; the page
\* and the limit of the request are in the list responses of the enterprise
\* tier only; the list responses of the other tiers and every single-item
\* response hold the items alone.
C8_PaginationOnlyEnterprise ==
    \A r \in Served :
        /\ "items" \in r.resp.keys
        /\ IF r.item = NoItem /\ r.tier = "enterprise"
           THEN /\ {"page", "limit"} \subseteq r.resp.keys
                /\ r.resp.page = r.page
                /\ r.resp.limit = r.limit
           ELSE r.resp.keys = {"items"}

\* C8 witness: a list response of the standard tier that holds the items and
\* nothing else
C8_Witness ==
    \E r \in Served :
        /\ r.tier = "standard"
        /\ r.item = NoItem
        /\ r.resp.keys = {"items"}
        /\ Len(r.resp.items) = 2

\* the table in id order
Table(n) == [k \in 1..n |-> Row(k)]

\* ceil(n / limit)
CeilDiv(n, limit) == CHOOSE k \in 0..n : k * limit >= n /\ (k - 1) * limit < n

\* the list results of the pages from..to, one after the other
RECURSIVE PagesJoined(_, _, _, _)
PagesJoined(n, limit, from, to) ==
    IF from > to
    THEN <<>>
    ELSE SelectPage(n, limit, Offset(from, limit)) \o PagesJoined(n, limit, from + 1, to)

\* C9: for a table and a limit >= 1, the list results of the pages 1, 2, 3,
\* ... joined in this order are the table, every row once and in id order, and
\* every page past the last row is empty; the result a request was given is
\* its page of that sequence.
C9_PagesCoverTable ==
    /\ \A limit \in 1..MaxLimit :
          /\ PagesJoined(inventory, limit, 1, CeilDiv(inventory, limit)) = Table(inventory)
          /\ \A page \in 1..MaxPage :
                SelectPage(inventory, limit,
                           Offset(CeilDiv(inventory, limit) + page, limit)) = <<>>
    /\ \A r \in Running :
          r.seen # None /\ r.item = NoItem /\ r.limit >= 1 =>
              PagesJoined(r.seen, r.limit, 1, r.page - 1) \o r.result
                  = SubSeq(Table(r.seen), 1, Min(r.seen, r.page * r.limit))

\* C9 witness: on a table of 3 rows a request for page 2 with limit 2 has
\* been answered with the third row alone
C9_Witness ==
    \E r \in Served :
        /\ r.page = 2
        /\ r.limit = 2
        /\ r.seen = 3
        /\ r.resp.items = <<Row(3)>>

\* C10: in every enterprise list response with limit >= 1, total is the
\* number of rows of the table and pages is ceil(total / limit), for every
\* size of the table, the empty one included.
C10_TotalAndPages ==
    \A r \in Served :
        r.tier = "enterprise" /\ r.item = NoItem /\ r.limit >= 1 =>
            /\ r.resp.total = r.seen
            /\ r.resp.pages = CeilDiv(r.resp.total, r.limit)

\* customer ids a token can be made for: the configured ones and another
TokenSubjects == Customers \cup {"CUST004"}

\* C11: for every customer id and every tier, a token made by create_token
\* decodes, at every hour before its expiration 24 hours after it was made,
\* to that customer id and that tier; and a request that presents the token
\* a login has issued, before the token's expiration, is handled as the
\* request of the token's customer and tier.
C11_TokenRoundTrip ==
    /\ [](\A c \in TokenSubjects, tier \in Tiers, age \in 0..(TokenTTL - 1) :
            /\ create_token(c, tier, now - age).exp = now - age + 24
            /\ decode_token(create_token(c, tier, now - age), now)
                   = [ok |-> TRUE, sub |-> c, tier |-> tier])
    /\ [][\A l \in LoggedIn, r \in BagToSet(reqs') :
             Arrived(r) /\ r.path = "/health" /\ now < l.resp.token.exp =>
                 /\ r.resp.status # 401
                 /\ r.cust = l.resp.token.sub
                 /\ r.tier = l.resp.token.tier
                 /\ r.tier = TierOf(r.cust)]_vars

\* C11 witness: the token the premium customer holds expires within the
\* hour, and a request with it has been served in this hour
C11_Witness ==
    /\ \E l \in LoggedIn :
          /\ l.resp.token.sub = "CUST002"
          /\ l.resp.token.tier = "premium"
          /\ l.resp.token.exp = now + 1
    /\ hist["CUST002"].allowed = 1
    /\ \E r \in Running :
          r.path = "/health" /\ r.cust = "CUST002" /\ r.stage = "responded"

\* C12: a request to a protected path with a token that has expired, or
\* whose signature was not made with the service's secret, or that is no
\* token, is answered 401 by the middleware: it is never taken for a request
\* of the customer the token names, the rate check is not run for it (no
\* window, no attempt noted), it gets no connection, queries nothing and
\* returns no inventory data.
C12_BadTokenUnauthorized ==
    /\ \A h \in ForgedHeaders(now) : ~Authenticate(h, now).ok
    /\ \A c \in {"CUST001", "CUST002"} :
          /\ cache_key(c) \notin DOMAIN cache
          /\ hist[c] = NoHist
    /\ \A r \in Running :
          r.cust # "CUST003" =>
              /\ r.cust = ""
              /\ r.stage = "error"
              /\ r.resp.status = 401
              /\ r.resp.keys = {"detail"}
              /\ r.resp.items = <<>>
              /\ r.slept = 0
              /\ ~r.acquired
              /\ r.seen = None

\* C12 witness: an inventory request with a token that must not pass has
\* been answered 401 while a request of the enterprise customer is at the
\* table, in the hour after the start
C12_Witness ==
    /\ now = LastHour
    /\ \E r \in Running :
          /\ r.path = "/api/inventory"
          /\ r.resp.status = 401
          /\ r.resp.detail = "Authentication error"
    /\ \E r \in Running : r.cust = "CUST003" /\ r.stage = "fetched"

\* C13: GET /health needs no authentication and is not rate-limited: every
\* health request, with or without an Authorization header, is answered 200.
C13_HealthAlwaysOk ==
    \A r \in Running :
        r.path = "/health" => r.stage = "responded" /\ r.resp.status = 200

\* C14: every answer of the service, of every endpoint and with every
\* outcome (login, inventory data, 401, 429, 503, 500), has the
\* X-Processing-Time header.
C14_EveryResponseTimed ==
    \A r \in Running :
        r.stage \in {"responded", "error"} => r.resp.timed

\* C15: the increment of a request that was let through stays: as long as
\* the hour of a customer's window is the current hour, no step lowers the
\* window's count or removes the window, whether the request is served,
\* answered 503 or 500, or cancelled during its delay or at the table; the
\* count of the current hour is the number of the requests let through in it.
C15_ChargedOnAttempt ==
    /\ [](\A c \in Customers :
            cache_key(c) \in DOMAIN cache /\ cache[cache_key(c)].hour = HourLabel(now)
                => cache[cache_key(c)].count = hist[c].allowed)
    /\ [][\A c \in Customers :
             cache_key(c) \in DOMAIN cache /\ cache[cache_key(c)].hour = HourLabel(now')
                 => /\ cache_key(c) \in DOMAIN cache'
                    /\ cache'[cache_key(c)].hour = cache[cache_key(c)].hour
                    /\ cache'[cache_key(c)].count >= cache[cache_key(c)].count]_vars

\* C15 witness: of the requests the standard customer was let through with
\* in this hour one was answered 503, one 500, one was cancelled while it
\* held a connection and one was served, and the count is their number
C15_Witness ==
    /\ \E r \in Running : r.resp.status = 503
    /\ \E r \in Running : r.resp.status = 500
    /\ \E r \in Running : r.stage = "cancelled" /\ r.acquired
    /\ \E r \in Running : r.stage = "responded"
    /\ InFlight = MaxCharged
    /\ cache[cache_key("CUST001")] = [count |-> MaxCharged, hour |-> HourLabel(now)]

\* C16: an inventory request that was let through and asks for an item id no
\* row holds finds an empty result and is answered 200 with an empty list of
\* items; such a request is in error only for what happened before its
\* result was there (401, 429, 503, a failure of the store), never for the
\* absence of the item.
C16_MissingItemEmpty200 ==
    \A r \in Running :
        r.path = "/api/inventory" /\ r.item = MissingItem =>
            /\ r.seen # None => r.result = <<>> /\ r.stage \in {"fetched", "responded"}
            /\ r.stage = "responded" =>
                  /\ r.seen # None
                  /\ r.resp.status = 200
                  /\ r.resp.keys = {"items"}
                  /\ r.resp.items = <<>>
            /\ r.stage = "error" => r.seen = None

\* C16 witness: the enterprise customer has asked for an item no row holds
\* and has been answered 200 with no items
C16_Witness ==
    \E r \in Served :
        /\ r.item = MissingItem
        /\ r.tier = "enterprise"
        /\ r.seen = MaxRows
        /\ r.resp.status = 200
        /\ r.resp.items = <<>>

\* the ids and keys a login can be tried with: the configured ones, an id
\* and a key that are not configured, and empty ones
LoginIds == Customers \cup {"CUST004", ""}

LoginKeys == {valid_customers[c].key : c \in Customers} \cup {"apikey004", ""}

\* the answers to the login requests
LoginAnswers == {l \in Running : l.path = "/api/login"}

\* C17: login answers with a token if and only if the customer id is a
\* configured one and the key is that customer's key; the token then names
\* that customer and the customer's configured tier and is good for 24
\* hours; in every other case login answers 401 and there is no token in
\* the answer.
C17_LoginIffCredentials ==
    /\ \A c \in LoginIds, k \in LoginKeys :
          LET resp == login(c, k, now)
              known == c \in Customers /\ k = valid_customers[c].key
          IN  /\ (resp.status = 200) = known
              /\ ("access_token" \in resp.keys) = known
              /\ known => resp.token = [sub |-> c, tier |-> TierOf(c),
                                        exp |-> now + 24, key |-> SECRET_KEY]
              /\ ~known => resp.status = 401 /\ resp.token = NoToken
    /\ \A l \in LoginAnswers :
          IF l.stage = "responded"
          THEN /\ l.resp.status = 200
               /\ l.resp.token.sub \in Customers
               /\ l.resp.token.tier = TierOf(l.resp.token.sub)
               /\ decode_token(l.resp.token, l.resp.token.exp - 1).ok
          ELSE /\ l.stage = "error"
               /\ l.resp.status = 401
               /\ l.resp.token = NoToken
               /\ "access_token" \notin l.resp.keys

\* C17 witness: a login has been answered with a token of the premium
\* customer, an hour after the start
C17_Witness ==
    /\ now = LastHour
    /\ \E l \in LoginAnswers :
          /\ l.stage = "responded"
          /\ l.resp.token = [sub |-> "CUST002", tier |-> "premium",
                             exp |-> now + 24, key |-> SECRET_KEY]

\* the window a cache holds for a customer, if any
WindowOf(cch, c) == IF cache_key(c) \in DOMAIN cch THEN <<cch[cache_key(c)]>> ELSE <<>>

\* C18: the window of a customer changes only in the step in which the
\* middleware lets a request through that was authenticated as that
\* customer's; a request of another customer, a request that fails
\* authentication, a login, the stages of a request in the handler, the
\* handing back of an answer and the passing of time leave it as it is; and
\* the only windows are those of customers whose requests were let through.
C18_WindowOwnRequestOnly ==
    [][/\ \A c \in Customers :
             WindowOf(cache', c) # WindowOf(cache, c) =>
                 /\ now' = now
                 /\ \A d \in Customers \ {c} : WindowOf(cache', d) = WindowOf(cache, d)
                 /\ \E r \in BagToSet(reqs') :
                       /\ Arrived(r)
                       /\ r.cust = c
                       /\ r.path # "/api/login"
                       /\ r.resp.status \notin {401, 429}
                       /\ WindowOf(cache', c) =
                              <<[count |-> IF r.discarded = None
                                           THEN hist[c].allowed + 1 ELSE 1,
                                 hour |-> HourLabel(now)]>>
       /\ DOMAIN cache' \subseteq {cache_key(c) : c \in Customers}]_vars

\* C18 witness: the window of the standard customer still holds the one
\* request of the hour before, while in this hour the premium customer has
\* sent its requests and a login has been answered
C18_Witness ==
    /\ now = LastHour
    /\ WindowOf(cache, "CUST001") = <<[count |-> 1, hour |-> HourLabel(now - 1)]>>
    /\ WindowOf(cache, "CUST002") = <<[count |-> MaxAttempts, hour |-> HourLabel(now)]>>
    /\ \E l \in LoginAnswers : l.stage = "responded"

\* the requests that are at the table: inside the async with block
AtTable == {r \in Running : r.stage \in {"conn", "fetched"}}

\* C19: the connections taken from the pool are those of the requests at
\* the table, one each, and never more than 20: a request gives its
\* connection back when it is served, when the store fails (500) and when it
\* is cancelled, and with no request at the table no connection is taken.
C19_SlotsBoundedAndReleased ==
    /\ inUse = BagCardinality([r \in AtTable |-> reqs[r]])
    /\ inUse <= 20
    /\ AtTable = {} => inUse = 0
    /\ \A r \in Running :
          /\ r.stage \in {"conn", "fetched"} => r.acquired
          /\ r.stage = "acquire" => ~r.acquired

\* C19 witness: 21 requests were let through; one of them was cancelled at
\* the table and has given its connection back, the other 20 are at the
\* table with the 20 connections
C19_Witness ==
    /\ hist["CUST001"].allowed = PoolMax + 1
    /\ inUse = PoolMax
    /\ \E r \in Running : r.stage = "cancelled" /\ r.acquired

\* every request in the bag has its answer
Settled == \A r \in Running : r.stage \in {"responded", "error"}

\* a request waits for a connection
Waiting == \E r \in Running : r.stage = "acquire"

\* C20: under fair scheduling every inventory request comes to its answer,
\* a response or an error, also a request that finds every connection of the
\* pool taken: its wait ends, and in the end no request is left in the
\* handler.  An error is final: a request in error carries an error status
\* and no inventory data, and no step changes it other than handing it back.
C20_EveryRequestEnds ==
    /\ <>[]Settled
    /\ Waiting ~> ~Waiting
    /\ [](\A r \in Running :
            r.stage = "error" =>
                /\ r.resp.status \in {401, 429, 500, 503}
                /\ "items" \notin r.resp.keys
                /\ r.resp.items = <<>>)
    /\ [][\A r \in Running :
             r.stage = "error" =>
                 \/ CopiesIn(r, reqs') >= CopiesIn(r, reqs)
                 \/ reqs' = Take(reqs, r)]_vars

\* C20 witness: 21 requests were let through, 20 of them are at the table
\* with every connection of the pool, and one waits for a connection
C20_Witness ==
    /\ hist["CUST001"].allowed = PoolMax + 1
    /\ inUse = PoolMax
    /\ Waiting

====
